---- MODULE Spec2Model ----
(***************************************************************************)
(* A model of the edo templating library: the nom-based template parser    *)
(* of src/src/parse.rs and the registry and render engine of               *)
(* src/src/lib.rs.                                                          *)
(*                                                                         *)
(* Text is a sequence of one-character strings.  The parser is built from  *)
(* nom 1.2 macros (chain!, alt!, many0!, take_until!, separated_list!);    *)
(* each macro is an operator returning an IResult record [kind, rest, out] *)
(* with kind Done, Error or Incomplete, as the macro does on a byte slice: *)
(*   - tag!, char! and take_until! are Incomplete on empty input;          *)
(*   - take_until! searches the whole rest of the input;                   *)
(*   - alt! hands on a Done or an Incomplete of a branch and tries the     *)
(*     next branch only after an Error;                                    *)
(*   - many0! ends with Done on an Error of its parser and is Incomplete   *)
(*     when its parser is;                                                 *)
(*   - separated_list! is an Error when its first element is empty and     *)
(*     leaves a separator that no element follows unconsumed;              *)
(*   - nom::alphanumeric is Done with nothing on empty input.              *)
(* All input is ASCII, so str::from_utf8 never fails and map_res! passes   *)
(* its parser's result through.  Each parser is written as a chain of      *)
(* operators, one per step of its macro, every step taking the results of  *)
(* the steps before it as parameters.                                      *)
(*                                                                         *)
(* The handler closures belong to the host; the model registers four, one  *)
(* per behaviour the library's tests and examples show.  The variables     *)
(* registered, replaced, renders and calls are history variables: the      *)
(* library does not store them.                                            *)
(***************************************************************************)
EXTENDS Naturals, Sequences, FiniteSets

\* ------------------------------------------------------------------ bounds

\* Longest template string enumerated by the parser specification.
MaxLen == 5

\* Most pieces concatenated into a template of the render specification.
MaxPieces == 2

\* Most renders counted between two registrations.
MaxRenders == 2

\* ------------------------------------------------------------------ state

VARIABLES
  template_string,  \* the template string given to Edo::new
  pc,               \* "start" before Edo::new, then "ok" or "err"
  iresult,          \* the IResult of expressions(input) inside parse
  template,         \* Edo.template
  value_producers,  \* Edo.value_producers, a set of <<name, producer>> entries
  registered,       \* history: the latest producer registered under each name
  replaced,         \* history: the name whose producer the latest registration replaced
  context,          \* the context of the latest render
  output,           \* the string the latest render returned
  errors,           \* the errors the latest render returned
  calls,            \* the handler invocations of the latest render
  renders           \* history: the renders since the latest registration

vars == <<template_string, pc, iresult, template, value_producers, registered, replaced,
          context, output, errors, calls, renders>>

\* ------------------------------------------------------------ text helpers

Chars == {"{", "}", "(", ")", ",", " ", "a", "b"}

Take(i, n) == SubSeq(i, 1, n)

Drop(i, n) == SubSeq(i, n + 1, Len(i))

\* Index of the first element of i satisfying the set of characters cs, or 0.
First(S) == IF S = {} THEN 0 ELSE CHOOSE k \in S : \A j \in S : k <= j

Position(i, cs) == First({k \in 1..Len(i) : i[k] \in cs})

\* ---------------------------------------------------------------- IResult

Done(rest, out) == [kind |-> "Done", rest |-> rest, out |-> out]

Error(i) == [kind |-> "Error", rest |-> i, out |-> <<>>]

Incomplete(i) == [kind |-> "Incomplete", rest |-> i, out |-> <<>>]

\* ------------------------------------------------------------- Expression

Function(name, arguments) ==
  [type |-> "Function", name |-> name, arguments |-> arguments]

Literal(text) == [type |-> "Literal", text |-> text]

\* ------------------------------------------------------- nom combinators

\* tag!("{"), tag!("}"), char!('('), char!(')'), char!(','): one byte.
tag(i, c) ==
  IF i = <<>> THEN Incomplete(i)
  ELSE IF i[1] = c THEN Done(Tail(i), <<c>>)
  ELSE Error(i)

\* take_until!(c): the bytes before the first c anywhere in the rest of the
\* input; c itself is left unconsumed.
take_until_position(i, p) ==
  IF i = <<>> THEN Incomplete(i)
  ELSE IF p = 0 THEN Error(i)
  ELSE Done(Drop(i, p - 1), Take(i, p - 1))

take_until(i, c) == take_until_position(i, Position(i, {c}))

is_alphanumeric(c) == c \in {"a", "b"}

\* nom::alphanumeric: the longest alphanumeric prefix; an error when the first
\* byte is not alphanumeric; the whole (possibly empty) input otherwise.
alphanumeric_position(i, p) ==
  IF p = 1 THEN Error(i)
  ELSE IF p = 0 THEN Done(<<>>, i)
  ELSE Done(Drop(i, p - 1), Take(i, p - 1))

alphanumeric(i) ==
  alphanumeric_position(i, Position(i, {c \in Chars : ~is_alphanumeric(c)}))

\* many0!(char!(' ')): skips the leading spaces, never fails.
spaces_position(i, p) == IF p = 0 THEN <<>> ELSE Drop(i, p - 1)

spaces(i) == spaces_position(i, Position(i, Chars \ {" "}))

\* terminated!(char!(','), many0!(char!(' ')))
separator_spaces(comma) ==
  IF comma.kind = "Done" THEN Done(spaces(comma.rest), comma.out) ELSE comma

separator(i) == separator_spaces(tag(i, ","))

\* The loop of separated_list! after the first element: a separator and then
\* an element; the input moves on only when both are parsed.
RECURSIVE separated_loop(_, _)
separated_element(input, res, sep, e) ==
  IF e.kind # "Done" \/ Len(e.rest) = Len(sep.rest)
  THEN Done(input, res)
  ELSE separated_loop(e.rest, Append(res, e.out))

separated_separator(input, res, sep) ==
  IF sep.kind # "Done" THEN Done(input, res)
  ELSE separated_element(input, res, sep, alphanumeric(sep.rest))

separated_loop(input, res) == separated_separator(input, res, separator(input))

\* separated_list!(separator, alphanumeric): the first element, then the loop.
separated_first(i, e) ==
  IF e.kind = "Error" THEN Done(i, <<>>)
  ELSE IF Len(e.rest) = Len(i) THEN Error(i)
  ELSE separated_loop(e.rest, <<e.out>>)

separated_list(i) == separated_first(i, alphanumeric(i))

\* named!(arguments ...): delimited!(char!('('), separated_list!(...), char!(')'))
arguments_close(list, close) ==
  IF close.kind # "Done" THEN close ELSE Done(close.rest, list.out)

arguments_list(list) ==
  IF list.kind # "Done" THEN list
  ELSE arguments_close(list, tag(list.rest, ")"))

arguments_open(open) ==
  IF open.kind # "Done" THEN open
  ELSE arguments_list(separated_list(open.rest))

arguments(i) == arguments_open(tag(i, "("))

\* alt!(take_until!("(") | take_until!("}")): the second branch is tried only
\* when the first is an Error.
name_alt(i, first) ==
  IF first.kind # "Error" THEN first ELSE take_until(i, "}")

name_parser(i) == name_alt(i, take_until(i, "("))

\* named!(function ...): chain!(tag!("{") ~ name ~ arguments? ~ tag!("}")).
\* arguments? is None, consuming nothing, when arguments is an Error.
function_close(name, list, close) ==
  IF close.kind # "Done" THEN close
  ELSE Done(close.rest, Function(name.out, list))

function_arguments(name, args) ==
  IF args.kind = "Incomplete" THEN args
  ELSE IF args.kind = "Done"
  THEN function_close(name, args.out, tag(args.rest, "}"))
  ELSE function_close(name, <<>>, tag(name.rest, "}"))

function_name(name) ==
  IF name.kind # "Done" THEN name
  ELSE function_arguments(name, arguments(name.rest))

function_open(open) ==
  IF open.kind # "Done" THEN open ELSE function_name(name_parser(open.rest))

function(i) == function_open(tag(i, "{"))

\* named!(literal ...): is_not!("{")
literal_position(i, p) ==
  IF p = 1 THEN Error(i)
  ELSE IF p = 0 THEN Done(<<>>, Literal(i))
  ELSE Done(Drop(i, p - 1), Literal(Take(i, p - 1)))

literal(i) == literal_position(i, Position(i, {"{"}))

\* alt!(function | literal)
expression_alt(i, f) == IF f.kind # "Error" THEN f ELSE literal(i)

expression(i) == expression_alt(i, function(i))

\* named!(expressions ...): many0!(alt!(function | literal)).  An Error of the
\* alternation ends the repetition with what was parsed so far; an Incomplete
\* is the result of the whole repetition.
RECURSIVE expressions_loop(_, _)
expressions_step(input, res, e) ==
  IF e.kind = "Error" THEN Done(input, res)
  ELSE IF e.kind = "Incomplete" THEN Incomplete(input)
  ELSE IF Len(e.rest) = Len(input) THEN Done(input, res)
  ELSE expressions_loop(e.rest, Append(res, e.out))

expressions_loop(input, res) ==
  IF input = <<>> THEN Done(input, res)
  ELSE expressions_step(input, res, expression(input))

expressions(i) == expressions_loop(i, <<>>)

\* parse: Done(_, expressions) is Ok(expressions), whatever input is left;
\* Error and Incomplete are Err(ParsingError).
Ok(v) == [ok |-> TRUE, value |-> v]

ParsingError == [ok |-> FALSE, value |-> <<>>]

parse_result(r) == IF r.kind = "Done" THEN Ok(r.out) ELSE ParsingError

parse(input) == parse_result(expressions(input))

\* ------------------------------------------------------- value producers

\* The placeholder names the host registers producers under.
Names == {<<"a">>, <<"b">>}

\* The strings the host registers with register_static.
StaticValues == {<<"S">>, <<"T">>}

\* The closures the host registers with register_handler, by what they return.
Handlers == {"Context", "Arguments", "Bork", "Fail"}

\* The context values the host renders with.
Contexts == {<<"1">>, <<"2">>}

Static(value) == [kind |-> "Static", value |-> value]

Handler(h) == [kind |-> "Handler", value |-> h]

Producers == {Static(v) : v \in StaticValues} \cup {Handler(h) : h \in Handlers}

\* .concat() of a vector of strings.
RECURSIVE concat(_)
concat(v) == IF v = <<>> THEN <<>> ELSE Head(v) \o concat(Tail(v))

\* The handler closures: |_, context| Ok(context.to_string()), one that
\* formats its arguments, |_, _| Err("BORK"), and one whose error message is
\* made of its arguments.
call(h, args, ctx) ==
  CASE h = "Context"   -> [ok |-> TRUE,  value |-> ctx]
    [] h = "Arguments" -> [ok |-> TRUE,  value |-> concat(args)]
    [] h = "Bork"      -> [ok |-> FALSE, value |-> <<"BORK">>]
    [] h = "Fail"      -> [ok |-> FALSE, value |-> <<"E">> \o concat(args)]

\* Mutant of insert: an entry already under the key is kept (or_insert).
insert_if_absent(map, key, value) ==
  IF \E e \in map : e[1] = key THEN map ELSE map \cup {<<key, value>>}

\* HashMap::insert: the entry of the key, if any, is replaced.
insert(map, key, value) ==
  {e \in map : e[1] # key} \cup {<<key, value>>}

\* HashMap::get: Some(value) of the key's entry, or None.
get(map, key) ==
  IF \E e \in map : e[1] = key
  THEN [some |-> TRUE,  value |-> (CHOOSE e \in map : e[1] = key)[2]]
  ELSE [some |-> FALSE, value |-> <<>>]

\* ----------------------------------------------------------------- render

\* Mutant of NewErrors: the error list of the previous render is kept.
StaleErrors == errors

\* let mut errors: Vec<String> = vec![];
NewErrors == <<>>

\* The closure mapped over the template: the string an expression renders
\* to, the errors pushed and the handler invocations made so far.
render_result(acc, r) ==
  IF r.ok
  THEN [acc EXCEPT !.strings = Append(@, r.value)]
  ELSE [acc EXCEPT !.strings = Append(@, <<>>),
                   !.errors = Append(@, r.value)]

\* Mutant of render_handler: the arguments are handed over in reverse order.
Reverse(v) == [k \in 1..Len(v) |-> v[Len(v) + 1 - k]]

render_handler_reversed(e, h, ctx, acc) ==
  render_result(
    [acc EXCEPT !.calls = Append(@, [handler |-> h,
                                     arguments |-> Reverse(e.arguments),
                                     context |-> ctx])],
    call(h, Reverse(e.arguments), ctx))

render_handler(e, h, ctx, acc) ==
  render_result(
    [acc EXCEPT !.calls = Append(@, [handler |-> h,
                                     arguments |-> e.arguments,
                                     context |-> ctx])],
    call(h, e.arguments, ctx))

\* Mutant of render_producer: a name without a producer is an error.
render_producer_strict(e, p, ctx, acc) ==
  IF ~p.some THEN [acc EXCEPT !.strings = Append(@, <<>>),
                              !.errors = Append(@, <<"missing">>)]
  ELSE IF p.value.kind = "Static"
  THEN [acc EXCEPT !.strings = Append(@, p.value.value)]
  ELSE render_handler(e, p.value.value, ctx, acc)

\* Mutant of render_producer: a static value is followed by the arguments.
render_producer_formatted(e, p, ctx, acc) ==
  IF ~p.some THEN [acc EXCEPT !.strings = Append(@, <<>>)]
  ELSE IF p.value.kind = "Static"
  THEN [acc EXCEPT !.strings = Append(@, p.value.value \o concat(e.arguments))]
  ELSE render_handler(e, p.value.value, ctx, acc)

render_producer(e, p, ctx, acc) ==
  IF ~p.some THEN [acc EXCEPT !.strings = Append(@, <<>>)]
  ELSE IF p.value.kind = "Static"
  THEN [acc EXCEPT !.strings = Append(@, p.value.value)]
  ELSE render_handler(e, p.value.value, ctx, acc)

render_expression(e, producers, ctx, acc) ==
  IF e.type = "Literal"
  THEN [acc EXCEPT !.strings = Append(@, e.text)]
  ELSE render_producer(e, get(producers, e.name), ctx, acc)

\* self.template.iter().map(...)
RECURSIVE render_map(_, _, _, _)

\* Mutant of render_map: the first handler error ends the render.
render_map_abort(exprs, producers, ctx, acc) ==
  IF exprs = <<>> \/ acc.errors # <<>> THEN acc
  ELSE render_map(Tail(exprs), producers, ctx,
                  render_expression(Head(exprs), producers, ctx, acc))

render_map(exprs, producers, ctx, acc) ==
  IF exprs = <<>> THEN acc
  ELSE render_map(Tail(exprs), producers, ctx,
                  render_expression(Head(exprs), producers, ctx, acc))

\* render_with_errors: (strings.concat(), errors)
render_collect(acc) ==
  [output |-> concat(acc.strings), errors |-> acc.errors, calls |-> acc.calls]

render_with_errors(exprs, producers, ctx) ==
  render_collect(
    render_map(exprs, producers, ctx,
               [strings |-> <<>>, errors |-> NewErrors, calls |-> <<>>]))

\* ------------------------------------------------------------ operations

\* Every string of at most MaxLen characters.
Strings == UNION {[1..n -> Chars] : n \in 0..MaxLen}

\* The parts the templates of the render specification are made of: a
\* literal, a placeholder without arguments, a placeholder with arguments
\* that a literal follows, and an opening brace.
Pieces ==
  { <<"x">>,
    <<"{", "a", "}">>,
    <<"{", "b", "(", "a", ",", " ", "b", ")", "}", "x">>,
    <<"{">> }

RECURSIVE Joined(_)
Joined(n) ==
  IF n = 0 THEN {<<>>}
  ELSE Joined(n - 1) \cup {t \o p : t \in Joined(n - 1), p \in Pieces}

Templates == Joined(MaxPieces)

InitWith(inputs) ==
  /\ template_string \in inputs
  /\ pc = "start"
  /\ iresult = Done(<<>>, <<>>)
  /\ template = <<>>
  /\ value_producers = {}
  /\ registered = <<>>
  /\ replaced = {}
  /\ context = <<>>
  /\ output = <<>>
  /\ errors = <<>>
  /\ calls = <<>>
  /\ renders = 0

Init == InitWith(Templates)

InitParse == InitWith(Strings)

\* Ok(Edo { value_producers: HashMap::new(), template: try!(parse(...)) })
Edo(r) ==
  /\ pc' = IF r.ok THEN "ok" ELSE "err"
  /\ template' = r.value
  /\ value_producers' = {}

\* Edo::new(template_string)
New ==
  /\ pc = "start"
  /\ iresult' = expressions(template_string)
  /\ Edo(parse(template_string))
  /\ UNCHANGED <<template_string, registered, replaced, context, output, errors, calls,
                 renders>>

\* The history of a registration: the producer becomes the latest one of its
\* name, and the render count starts again.
Recorded(name, producer) ==
  /\ registered' = [n \in DOMAIN registered \cup {name} |->
                      IF n = name THEN producer ELSE registered[n]]
  /\ replaced' = IF name \in DOMAIN registered /\ registered[name] # producer
                 THEN {name} ELSE {}
  /\ renders' = 0

\* Edo::register_handler(name, handler)
RegisterHandler ==
  /\ pc = "ok"
  /\ \E name \in Names, h \in Handlers :
       /\ value_producers' = insert(value_producers, name, Handler(h))
       /\ Recorded(name, Handler(h))
  /\ UNCHANGED <<template_string, pc, iresult, template, context, output, errors, calls>>

\* Edo::register_static(name, input)
RegisterStatic ==
  /\ pc = "ok"
  /\ \E name \in Names, v \in StaticValues :
       /\ value_producers' = insert(value_producers, name, Static(v))
       /\ Recorded(name, Static(v))
  /\ UNCHANGED <<template_string, pc, iresult, template, context, output, errors, calls>>

\* What a render call hands back to the host.
Returned(r) ==
  /\ output' = r.output
  /\ errors' = r.errors
  /\ calls' = r.calls

\* Edo::render_with_errors(context); Edo::render returns its first component.
Render ==
  /\ pc = "ok"
  /\ renders < MaxRenders
  /\ \E ctx \in Contexts :
       /\ context' = ctx
       /\ Returned(render_with_errors(template, value_producers, ctx))
  /\ renders' = renders + 1
  /\ UNCHANGED <<template_string, pc, iresult, template, value_producers, registered,
                 replaced>>

Next == New \/ RegisterHandler \/ RegisterStatic \/ Render

Spec == Init /\ [][Next]_vars

NextParse == New

SpecParse == InitParse /\ [][NextParse]_vars

\* ------------------------------------------------- what a render returns

\* The registry as a function from the registered names to their producers.
CurrentRegistry ==
  [n \in {e[1] : e \in value_producers} |->
     CHOOSE p \in Producers : <<n, p>> \in value_producers]

IsFunction(e) == e.type = "Function"

Missing(e, R) == IsFunction(e) /\ e.name \notin DOMAIN R

IsStatic(e, R) ==
  IsFunction(e) /\ e.name \in DOMAIN R /\ R[e.name].kind = "Static"

IsHandled(e, R) ==
  IsFunction(e) /\ e.name \in DOMAIN R /\ R[e.name].kind = "Handler"

Answer(e, R, ctx) == call(R[e.name].value, e.arguments, ctx)

\* The text an expression stands for in the output.
Fragment(e, R, ctx) ==
  IF ~IsFunction(e) THEN e.text
  ELSE IF Missing(e, R) THEN <<>>
  ELSE IF IsStatic(e, R) THEN R[e.name].value
  ELSE IF Answer(e, R, ctx).ok THEN Answer(e, R, ctx).value
  ELSE <<>>

RECURSIVE JoinUpTo(_, _)
JoinUpTo(f, n) == IF n = 0 THEN <<>> ELSE JoinUpTo(f, n - 1) \o f[n]

\* The j-th smallest element of a set of numbers.
Nth(S, j) == CHOOSE k \in S : Cardinality({m \in S : m <= k}) = j

ExpectedOutput(exprs, R, ctx) ==
  JoinUpTo([k \in 1..Len(exprs) |-> Fragment(exprs[k], R, ctx)], Len(exprs))

FailingAt(exprs, R, ctx) ==
  {k \in 1..Len(exprs) : IsHandled(exprs[k], R) /\ ~Answer(exprs[k], R, ctx).ok}

ExpectedErrors(exprs, R, ctx) ==
  LET F == FailingAt(exprs, R, ctx)
  IN  [j \in 1..Cardinality(F) |-> Answer(exprs[Nth(F, j)], R, ctx).value]

HandledAt(exprs, R) == {k \in 1..Len(exprs) : IsHandled(exprs[k], R)}

ExpectedCalls(exprs, R, ctx) ==
  LET H == HandledAt(exprs, R)
  IN  [j \in 1..Cardinality(H) |->
         [handler   |-> R[exprs[Nth(H, j)].name].value,
          arguments |-> exprs[Nth(H, j)].arguments,
          context   |-> ctx]]

\* ------------------------------------------------- what the parser consumed

\* The parts of a string the repetition of expressions consumed, in order.
RECURSIVE Spans(_)
Spans(i) ==
  IF i = <<>> THEN <<>>
  ELSE LET e == expression(i)
       IN  IF e.kind # "Done" \/ Len(e.rest) = Len(i) THEN <<>>
           ELSE <<Take(i, Len(i) - Len(e.rest))>> \o Spans(e.rest)

\* The parser went into a placeholder at a '{' and the placeholder's parse
\* failed there.
FailedPlaceholder ==
  /\ iresult.rest # <<>>
  /\ Head(iresult.rest) = "{"
  /\ function(iresult.rest).kind # "Done"

Contains(text, c) == \E k \in 1..Len(text) : text[k] = c

\* ------------------------------------------------------------------ claims

\* C1: constructing a template fails with ParsingError whenever a '{' the
\* parser reaches starts a placeholder whose parse fails; the result is never
\* Ok with a shorter expression sequence.
C1_FailedPlaceholderIsParsingError ==
  (pc # "start" /\ FailedPlaceholder) => pc = "err"

\* C2: the expressions of a successful parse cover the whole input: the
\* consumed spans, joined in order, are the input, one span per expression,
\* a literal's span being its text.
C2_RoundTripPartition ==
  pc = "ok" =>
    LET spans == Spans(template_string)
    IN  /\ Len(spans) = Len(template)
        /\ JoinUpTo(spans, Len(spans)) = template_string
        /\ \A k \in 1..Len(template) :
             ~IsFunction(template[k]) => spans[k] = template[k].text

\* C8: a parsed placeholder name is the text between the opening '{' and the
\* first following '(' or '}', whichever comes first, so it holds neither.
C8_NameDelimitation ==
  pc = "ok" =>
    \A k \in 1..Len(template) :
      IsFunction(template[k]) =>
        LET body == Tail(Spans(template_string)[k])
        IN  /\ template[k].name = Take(body, Position(body, {"(", "}"}) - 1)
            /\ ~Contains(template[k].name, "(")
            /\ ~Contains(template[k].name, "}")

\* C9: in a successful parse every literal is non-empty and holds no '{', and
\* every placeholder has a non-empty name.
C9_NoEmptyExpression ==
  pc = "ok" =>
    \A k \in 1..Len(template) :
      IF IsFunction(template[k])
      THEN template[k].name # <<>>
      ELSE template[k].text # <<>> /\ ~Contains(template[k].text, "{")

\* C3: a render's error list is exactly the messages of the placeholders
\* whose handler failed, in document order, each such placeholder stands for
\* the empty string, and every other expression is rendered all the same.
C3_ErrorIsolation ==
  renders > 0 =>
    /\ errors = ExpectedErrors(template, CurrentRegistry, context)
    /\ output = ExpectedOutput(template, CurrentRegistry, context)

\* A render in which two placeholders failed with different messages and the
\* literal between them was rendered.
C3_Witness ==
  /\ renders > 0
  /\ Len(errors) = 2
  /\ errors[1] # errors[2]
  /\ Len(template) = 3
  /\ output = template[2].text

\* C4: placeholders whose name has no producer add nothing to the output and
\* nothing to the errors: the render returns what it returns for the template
\* without them.
C4_MissingHandlerTolerance ==
  renders > 0 =>
    LET Present(e) == ~Missing(e, CurrentRegistry)
        kept == SelectSeq(template, Present)
    IN  /\ output = ExpectedOutput(kept, CurrentRegistry, context)
        /\ errors = ExpectedErrors(kept, CurrentRegistry, context)

\* A render of a template with a placeholder without producer beside a
\* placeholder with one, which produced output.
C4_Witness ==
  /\ renders > 0
  /\ output # <<>>
  /\ \E k \in 1..Len(template) : Missing(template[k], CurrentRegistry)
  /\ \E k \in 1..Len(template) :
       IsFunction(template[k]) /\ ~Missing(template[k], CurrentRegistry)

\* C5: the registry holds at most one producer per name, the one of the
\* latest registration under that name, and a render returns what that
\* producer gives.
C5_OverrideSemantics ==
  pc = "ok" =>
    /\ \A n \in Names : Cardinality({e \in value_producers : e[1] = n}) <= 1
    /\ {e[1] : e \in value_producers} = DOMAIN registered
    /\ \A n \in DOMAIN registered : <<n, registered[n]>> \in value_producers
    /\ renders > 0 =>
         /\ output = ExpectedOutput(template, registered, context)
         /\ errors = ExpectedErrors(template, registered, context)

\* A render after a registration that replaced a handler by a static value
\* under a name the template uses.
C5_Witness ==
  /\ renders > 0
  /\ output # <<>>
  /\ \E n \in replaced :
       /\ registered[n].kind = "Static"
       /\ \E k \in 1..Len(template) :
            IsFunction(template[k]) /\ template[k].name = n

\* C6: a render calls the handler of each placeholder that has one exactly
\* once, in document order, with the placeholder's arguments in their order
\* and the context of the render, and the output joins the literals and the
\* substitutions in document order.
C6_HandlerInvocation ==
  renders > 0 =>
    /\ calls = ExpectedCalls(template, CurrentRegistry, context)
    /\ output = ExpectedOutput(template, CurrentRegistry, context)

\* A render that called a handler with two arguments and then one that
\* returns the context.
C6_Witness ==
  /\ renders > 0
  /\ Len(calls) = 2
  /\ calls[1].handler = "Arguments"
  /\ calls[1].arguments = << <<"a">>, <<"b">> >>
  /\ calls[2].handler = "Context"
  /\ output = <<"a", "b", "x">> \o context

AllStatic ==
  \A k \in 1..Len(template) :
    IsFunction(template[k]) => IsStatic(template[k], CurrentRegistry)

\* C7: when every placeholder of the template has a static producer, a render
\* returns no error and the same output for every context, each placeholder
\* standing for its registered value whatever its arguments.
C7_StaticIgnoresContext ==
  (renders > 0 /\ AllStatic) =>
    /\ errors = <<>>
    /\ \A ctx \in Contexts :
         /\ render_with_errors(template, value_producers, ctx).output = output
         /\ render_with_errors(template, value_producers, ctx).errors = <<>>
    /\ output = JoinUpTo([k \in 1..Len(template) |->
                            IF IsFunction(template[k])
                            THEN CurrentRegistry[template[k].name].value
                            ELSE template[k].text],
                         Len(template))

\* A render of a template whose placeholders are all static, one of them with
\* arguments.
C7_Witness ==
  /\ renders > 0
  /\ AllStatic
  /\ \E k \in 1..Len(template) :
       IsFunction(template[k]) /\ template[k].arguments # <<>>

\* C10: a render leaves the template and the registry as they are, returns no
\* more errors than the template has expressions, and returns the output and
\* the errors of the render before it when the context is the same and
\* nothing was registered in between.
C10_RenderReadOnlyFresh ==
  [][renders' > renders =>
       /\ template' = template
       /\ value_producers' = value_producers
       /\ Len(errors') <= Len(template)
       /\ (renders > 0 /\ context' = context) =>
            (output' = output /\ errors' = errors)]_vars

\* A second render in a row that returned an error and some output.
C10_Witness ==
  /\ renders >= 2
  /\ errors # <<>>
  /\ output # <<>>

====
